---- MODULE Spec2Model ----
(***************************************************************************)
(* Model of src/components/PortofolioTable.tsx: the PortfolioTable React   *)
(* component.  State: the two useState cells (liveData, selectedSector),   *)
(* the portfolioData prop, the interval timers created by the effect, the  *)
(* quote requests in flight, the latest resolutions of requests, and a     *)
(* millisecond clock.  The render body                                     *)
(* (lines 60-71, 126-134) is a pure function of that state and is modelled *)
(* by operators.                                                           *)
(***************************************************************************)
EXTENDS Integers, Sequences, FiniteSets, TLC

VARIABLES phase, portfolioData, liveData, selectedSector,
          intervals, effects, requests, pending, last, lastOk,
          errorLog, clock

vars == <<phase, portfolioData, liveData, selectedSector,
          intervals, effects, requests, pending, last, lastOk,
          errorLog, clock>>

(***************************************************************************)
(* Bounds                                                                  *)
(***************************************************************************)
MaxHoldings == 2      \* longest portfolioData
MaxRequests == 3      \* quote requests issued in one behaviour
MaxEffects == 2       \* runs of the effect (mount + holdings changes)
MaxClockSteps == 2    \* clock advances, each of one interval

(***************************************************************************)
(* Program constants                                                       *)
(***************************************************************************)
IntervalMs == 6000
AllSectors == "All Sectors"

ClockStep == IntervalMs
MaxTime == MaxClockSteps * ClockStep

(***************************************************************************)
(* JavaScript values.  A nullable value is a sequence: <<>> is null,       *)
(* <<v>> is the value v.                                                   *)
(***************************************************************************)
Null == <<>>
Some(v) == <<v>>
IsNull(x) == x = <<>>

Range(s) == {s[i] : i \in 1..Len(s)}

(***************************************************************************)
(* Inputs: holdings (the StockHolding fields the component reads)          *)
(***************************************************************************)
Symbols == {"AAA", "BBB", "CCC"}
SectorNames == {"Auto", "Energy", "Tech"}
Prices == {0, 100, 200}
Quantities == {0, 10}

StockHolding == [symbol : Symbols, sector : SectorNames,
                 purchasePrice : Prices, quantity : Quantities]

\* sequences of holdings of length <= MaxHoldings with unique symbols
SeqsUpTo(S, n) == UNION {[1..k -> S] : k \in 0..n}

UniqueSymbols(pd) == \A i, j \in 1..Len(pd) : pd[i].symbol = pd[j].symbol => i = j

Portfolios == {pd \in SeqsUpTo(StockHolding, MaxHoldings) : UniqueSymbols(pd)}

hA == [symbol |-> "AAA", sector |-> "Tech", purchasePrice |-> 100, quantity |-> 10]
hB == [symbol |-> "BBB", sector |-> "Energy", purchasePrice |-> 100, quantity |-> 10]

\* the portfolios the polling specification moves between
PollPortfolios == {pd \in {<<hA, hB>>, <<hA>>} : Len(pd) <= MaxHoldings}

(***************************************************************************)
(* Inputs: upstream responses.  An element of response.data is a quote     *)
(* record or the JavaScript value null (kind "null").                      *)
(***************************************************************************)
Quote(s, c, p, t) == [kind |-> "quote", symbol |-> s, cmp |-> c,
                      peRatio |-> p, earningsTimestamp |-> t]
NullElement == [kind |-> "null", symbol |-> "", cmp |-> Null,
                peRatio |-> Null, earningsTimestamp |-> Null]

qA1 == Quote("AAA", Some(120), Some(15), Some(1700000000))
qA2 == Quote("AAA", Some(130), Null, Null)
qB1 == Quote("BBB", Null, Some(8), Some(1704412800))

Responses == { <<qA1, qB1>>, <<qA2>>, <<qA1, NullElement>> }

\* what the upstream may answer to a request for symbols syms
ResponsesFor(syms) ==
    {r \in Responses :
        \A i \in 1..Len(r) : r[i].kind = "quote" => r[i].symbol \in Range(syms)}

(***************************************************************************)
(* format(new Date(ts * 1000), 'MMM dd') (line 44), computed on seconds.   *)
(***************************************************************************)
LocalOffsetSec == 0

MonthNames == <<"Jan", "Feb", "Mar", "Apr", "May", "Jun",
                "Jul", "Aug", "Sep", "Oct", "Nov", "Dec">>

TwoDigits(n) == IF n < 10 THEN "0" \o ToString(n) ELSE ToString(n)

\* civil date of a day number counted from 1970-01-01
CivilFromDays(z0) ==
    LET z == z0 + 719468
        era == z \div 146097
        doe == z - era * 146097
        yoe == (doe - doe \div 1460 + doe \div 36524 - doe \div 146096) \div 365
        doy == doe - (365 * yoe + yoe \div 4 - yoe \div 100)
        mp == (5 * doy + 2) \div 153
        d == doy - (153 * mp + 2) \div 5 + 1
        m == IF mp < 10 THEN mp + 3 ELSE mp - 9
    IN [month |-> m, day |-> d]

FormatMMMdd(ts) ==
    LET c == CivilFromDays((ts + LocalOffsetSec) \div 86400)
    IN MonthNames[c.month] \o " " \o TwoDigits(c.day)

(***************************************************************************)
(* Lines 37-47: build mappedData from response.data.  Reading a property   *)
(* of a null element throws; the result records whether the loop threw.    *)
(***************************************************************************)
EmptyData == [s \in {} |-> 0]

\* peRatio gets the default of cmp
NormalizeQuotePeDefaultsZero(stock) ==
    [cmp |-> IF IsNull(stock.cmp) THEN 0 ELSE stock.cmp[1],
     peRatio |-> IF IsNull(stock.peRatio) THEN Some(0) ELSE stock.peRatio,
     latestEarnings |-> IF IsNull(stock.earningsTimestamp)
                        THEN Null
                        ELSE Some(FormatMMMdd(stock.earningsTimestamp[1]))]

\* lines 39-46
NormalizeQuote(stock) ==
    [cmp |-> IF IsNull(stock.cmp) THEN 0 ELSE stock.cmp[1],
     peRatio |-> stock.peRatio,
     latestEarnings |-> IF IsNull(stock.earningsTimestamp)
                        THEN Null
                        ELSE Some(FormatMMMdd(stock.earningsTimestamp[1]))]

RECURSIVE ForEachQuote(_, _)
ForEachQuote(data, mappedData) ==
    IF data = <<>> THEN [threw |-> FALSE, mappedData |-> mappedData]
    ELSE IF Head(data).kind = "null" THEN [threw |-> TRUE, mappedData |-> mappedData]
    ELSE ForEachQuote(Tail(data),
                      (Head(data).symbol :> NormalizeQuote(Head(data))) @@ mappedData)

MapResponse(data) == ForEachQuote(data, EmptyData)

(***************************************************************************)
(* Render body                                                             *)
(***************************************************************************)
\* line 60, as a set (the options of the select besides the sentinel)
SectorSet(pd) == {pd[i].sector : i \in 1..Len(pd)}

\* the UTF-16 code units of the sector names, which Array.prototype.sort
\* compares (line 60)
CodeUnits(str) ==
    CASE str = "Auto" -> <<65, 117, 116, 111>>
      [] str = "Energy" -> <<69, 110, 101, 114, 103, 121>>
      [] str = "Tech" -> <<84, 101, 99, 104>>

\* a precedes b in the order of sort() without a comparator
RECURSIVE UnitsLess(_, _)
UnitsLess(a, b) ==
    IF b = <<>> THEN FALSE
    ELSE IF a = <<>> THEN TRUE
    ELSE IF Head(a) # Head(b) THEN Head(a) < Head(b)
    ELSE UnitsLess(Tail(a), Tail(b))

StringLess(a, b) == UnitsLess(CodeUnits(a), CodeUnits(b))

\* line 60: new Set(...) keeps the first occurrence of each value, in order
RECURSIVE Distinct(_, _)
Distinct(list, seen) ==
    IF list = <<>> THEN seen
    ELSE IF Head(list) \in Range(seen) THEN Distinct(Tail(list), seen)
    ELSE Distinct(Tail(list), Append(seen, Head(list)))

\* line 60: .sort()
RECURSIVE InsertSorted(_, _)
InsertSorted(x, sorted) ==
    IF sorted = <<>> THEN <<x>>
    ELSE IF StringLess(x, Head(sorted)) THEN <<x>> \o sorted
    ELSE <<Head(sorted)>> \o InsertSorted(x, Tail(sorted))

RECURSIVE SortStrings(_)
SortStrings(list) ==
    IF list = <<>> THEN <<>>
    ELSE InsertSorted(Head(list), SortStrings(Tail(list)))

\* the sort is left out
SectorsUnsorted(pd) == Distinct([i \in 1..Len(pd) |-> pd[i].sector], <<>>)

\* line 60
Sectors(pd) == SortStrings(Distinct([i \in 1..Len(pd) |-> pd[i].sector], <<>>))

sectors == Sectors(portfolioData)

\* lines 62-65
FilterHoldings(pd, sel) ==
    IF sel = AllSectors THEN pd
    ELSE SelectSeq(pd, LAMBDA stock : stock.sector = sel)

filteredPortfolioData == FilterHoldings(portfolioData, selectedSector)

\* lines 68-71
RECURSIVE Reduce(_, _)
Reduce(list, acc) ==
    IF list = <<>> THEN acc
    ELSE Reduce(Tail(list), acc + Head(list).purchasePrice * Head(list).quantity)

\* the quantity is left out of the sum
TotalOfPricesOnly(list) ==
    Reduce([i \in 1..Len(list) |-> [list[i] EXCEPT !.quantity = 1]], 0)

TotalOf(list) == Reduce(list, 0)

\* the total is taken over the whole portfolio
totalInvestmentAll == TotalOf(portfolioData)

totalInvestment == TotalOf(filteredPortfolioData)

\* line 128: ((investment / totalInvestment) * 100).toFixed(2); the finite
\* result is kept in hundredths of a percent
PortfolioPercent(investment, total) ==
    IF total = 0
    THEN [kind |-> IF investment = 0 THEN "NaN"
                   ELSE IF investment > 0 THEN "Infinity" ELSE "-Infinity",
          value |-> 0]
    ELSE [kind |-> "finite",
          value |-> (2 * 10000 * investment + total) \div (2 * total)]

\* lines 130-131, 150-151: x ?? '-' as it is rendered; a number is rendered by
\* its decimal digits
DisplayNumber(x) == IF IsNull(x) THEN "-" ELSE ToString(x[1])
DisplayText(x) == IF IsNull(x) THEN "-" ELSE x[1]

\* a symbol without live data is valued at its purchase price
DerivedRowAtPurchasePrice(stock, live, total) ==
    LET investment == stock.purchasePrice * stock.quantity
        has == stock.symbol \in DOMAIN live
        cmp == IF has THEN live[stock.symbol].cmp ELSE stock.purchasePrice
        presentValue == cmp * stock.quantity
    IN [symbol |-> stock.symbol,
        sector |-> stock.sector,
        investment |-> investment,
        portfolioPercent |-> PortfolioPercent(investment, total),
        cmp |-> cmp,
        peRatio |-> IF has THEN DisplayNumber(live[stock.symbol].peRatio) ELSE "-",
        latestEarnings |->
            IF has THEN DisplayText(live[stock.symbol].latestEarnings) ELSE "-",
        presentValue |-> presentValue,
        gainLoss |-> presentValue - investment]

\* the gain is taken with the wrong sign
DerivedRowGainFlipped(stock, live, total) ==
    LET investment == stock.purchasePrice * stock.quantity
        has == stock.symbol \in DOMAIN live
        cmp == IF has THEN live[stock.symbol].cmp ELSE 0
        presentValue == cmp * stock.quantity
    IN [symbol |-> stock.symbol,
        sector |-> stock.sector,
        investment |-> investment,
        portfolioPercent |-> PortfolioPercent(investment, total),
        cmp |-> cmp,
        peRatio |-> IF has THEN DisplayNumber(live[stock.symbol].peRatio) ELSE "-",
        latestEarnings |->
            IF has THEN DisplayText(live[stock.symbol].latestEarnings) ELSE "-",
        presentValue |-> presentValue,
        gainLoss |-> investment - presentValue]

\* lines 127-133
DerivedRow(stock, live, total) ==
    LET investment == stock.purchasePrice * stock.quantity
        has == stock.symbol \in DOMAIN live
        cmp == IF has THEN live[stock.symbol].cmp ELSE 0
        presentValue == cmp * stock.quantity
    IN [symbol |-> stock.symbol,
        sector |-> stock.sector,
        investment |-> investment,
        portfolioPercent |-> PortfolioPercent(investment, total),
        cmp |-> cmp,
        peRatio |-> IF has THEN DisplayNumber(live[stock.symbol].peRatio) ELSE "-",
        latestEarnings |->
            IF has THEN DisplayText(live[stock.symbol].latestEarnings) ELSE "-",
        presentValue |-> presentValue,
        gainLoss |-> presentValue - investment]

\* the rows are rendered last to first
rowsReversed ==
    [i \in 1..Len(filteredPortfolioData) |->
        DerivedRow(filteredPortfolioData[Len(filteredPortfolioData) + 1 - i],
                   liveData, totalInvestment)]

\* lines 126, 164
rows == [i \in 1..Len(filteredPortfolioData) |->
            DerivedRow(filteredPortfolioData[i], liveData, totalInvestment)]

(***************************************************************************)
(* Effect (lines 31-58)                                                    *)
(***************************************************************************)
SymbolsOf(pd) == [i \in 1..Len(pd) |-> pd[i].symbol]

\* lines 34-35: the request a call of fetchLiveStockAPIResponse of effect e
\* issues; its symbols are those of the holdings the effect closed over
NewRequest(e, timer) == [effect |-> e, byTimer |-> timer]

\* the cleanup forgets to clear the timer
ClearIntervalNoop(timers, e) == timers

\* the cleanup clears the timer of the run before
ClearIntervalStaleId(timers, e) == timers \ {e - 1}

\* line 57: the cleanup of effect e
ClearInterval(timers, e) == timers \ {e}

\* the effect only schedules the interval, without the call of line 54
RunEffectNoImmediate(pd, timers) ==
    LET e == Len(effects) + 1
    IN /\ Len(effects) < MaxEffects
       /\ Len(requests) < MaxRequests
       /\ effects' = Append(effects, [symbols |-> SymbolsOf(pd), startedAt |-> clock,
                                      due |-> clock + IntervalMs, fired |-> 0])
       /\ requests' = requests
       /\ pending' = pending
       /\ intervals' = timers \cup {e}

\* lines 54-56: run the effect for holdings pd
RunEffect(pd, timers) ==
    LET e == Len(effects) + 1
    IN /\ Len(effects) < MaxEffects
       /\ Len(requests) < MaxRequests
       /\ effects' = Append(effects, [symbols |-> SymbolsOf(pd), startedAt |-> clock,
                                      due |-> clock + IntervalMs, fired |-> 0])
       /\ requests' = Append(requests, NewRequest(e, FALSE))
       /\ pending' = pending \cup {Len(requests) + 1}
       /\ intervals' = timers \cup {e}

(***************************************************************************)
(* The latest resolutions of line 35: last is the outcome of the most      *)
(* recent one, lastOk is the most recent one whose payload was processed   *)
(* without a throw.                                                        *)
(***************************************************************************)
NoResolution == "none"
NoResult == [req |-> 0, data |-> <<>>]

(***************************************************************************)
(* Lines 48-51: the end of the try block and the catch block               *)
(***************************************************************************)
\* keeps the entries already in the cache and only adds new symbols
SetLiveDataKeepOld(prev, mappedData) ==
    IF phase = "mounted" THEN prev @@ mappedData ELSE prev

\* stops applying results once an error has been logged
SetLiveDataUnlessErrored(prev, mappedData) ==
    IF phase = "mounted" /\ errorLog = 0 THEN mappedData ELSE prev

\* the result is laid over the cache, entries of absent symbols are kept
SetLiveDataMerge(prev, mappedData) ==
    IF phase = "mounted" THEN mappedData @@ prev ELSE prev

\* a result equal to the cache is taken for "no data" and clears it
SetLiveDataDropsUnchanged(prev, mappedData) ==
    IF phase = "mounted"
    THEN IF mappedData = prev THEN EmptyData ELSE mappedData
    ELSE prev

\* line 48: setLiveData replaces the state of a mounted component; React
\* drops a state update of a component that has unmounted
SetLiveData(prev, mappedData) == IF phase = "mounted" THEN mappedData ELSE prev

\* the catch block resets the cache
OnErrorClears(prev) == EmptyData

\* lines 49-51: the catch block only logs
OnError(prev) == prev

Init ==
    /\ phase = "init"
    /\ portfolioData \in PollPortfolios
    /\ liveData = EmptyData
    /\ selectedSector = AllSectors
    /\ intervals = {}
    /\ effects = <<>>
    /\ requests = <<>>
    /\ pending = {}
    /\ last = NoResolution
    /\ lastOk = NoResult
    /\ errorLog = 0
    /\ clock = 0

\* first commit: the effect runs
Mount ==
    /\ phase = "init"
    /\ phase' = "mounted"
    /\ RunEffect(portfolioData, intervals)
    /\ UNCHANGED <<portfolioData, liveData, selectedSector, last, lastOk, errorLog, clock>>

\* new holdings reset the cache
HoldingsChangeResets ==
    \E pd \in PollPortfolios :
        /\ phase = "mounted"
        /\ portfolioData' = pd
        /\ liveData' = EmptyData
        /\ RunEffect(pd, ClearInterval(intervals, Len(effects)))
        /\ UNCHANGED <<phase, selectedSector, last, lastOk, errorLog,
                       clock>>

\* the parent passes new holdings: cleanup of the previous effect, then the effect
HoldingsChange ==
    \E pd \in PollPortfolios :
        /\ phase = "mounted"
        /\ portfolioData' = pd
        /\ RunEffect(pd, ClearInterval(intervals, Len(effects)))
        /\ UNCHANGED <<phase, liveData, selectedSector, last, lastOk,
                       errorLog, clock>>

Unmount ==
    /\ phase = "mounted"
    /\ phase' = "unmounted"
    /\ intervals' = ClearInterval(intervals, Len(effects))
    /\ UNCHANGED <<portfolioData, liveData, selectedSector, effects,
                   requests, pending, last, lastOk, errorLog, clock>>

\* time passes; the clock counts from the first commit
Advance ==
    /\ phase # "init"
    /\ clock < MaxTime
    /\ clock' = clock + ClockStep
    /\ UNCHANGED <<phase, portfolioData, liveData, selectedSector, intervals,
                   effects, requests, pending, last, lastOk,
                   errorLog>>

\* line 56: an active interval whose delay has elapsed calls
\* fetchLiveStockAPIResponse, up to the await of line 35
Tick ==
    \E e \in intervals :
        /\ clock >= effects[e].due
        /\ Len(requests) < MaxRequests
        /\ requests' = Append(requests, NewRequest(e, TRUE))
        /\ pending' = pending \cup {Len(requests) + 1}
        /\ effects' = [effects EXCEPT ![e].due = clock + IntervalMs,
                                      ![e].fired = @ + 1]
        /\ UNCHANGED <<phase, portfolioData, liveData, selectedSector,
                       intervals, last, lastOk, errorLog, clock>>

\* line 35 rejects: lines 49-51
Reject ==
    \E r \in pending :
        /\ pending' = pending \ {r}
        /\ liveData' = OnError(liveData)
        /\ errorLog' = errorLog + 1
        /\ last' = "rejected"
        /\ UNCHANGED lastOk
        /\ UNCHANGED <<phase, portfolioData, selectedSector, intervals,
                       effects, requests, clock>>

\* line 35 resolves with response.data = data: lines 37-51
Respond ==
    \E r \in pending :
        \E data \in ResponsesFor(effects[requests[r].effect].symbols) :
            LET m == MapResponse(data)
            IN /\ pending' = pending \ {r}
               /\ liveData' = IF m.threw THEN OnError(liveData)
                                         ELSE SetLiveData(liveData, m.mappedData)
               /\ errorLog' = IF m.threw THEN errorLog + 1 ELSE errorLog
               /\ last' = IF m.threw THEN "threw" ELSE "ok"
               /\ lastOk' = IF m.threw THEN lastOk ELSE [req |-> r, data |-> data]
               /\ UNCHANGED <<phase, portfolioData, selectedSector,
                              intervals, effects, requests, clock>>

\* the select offers every known sector, whether a holding has it or not
SelectSectorAnyName ==
    \E v \in {AllSectors} \cup SectorNames :
        /\ phase = "mounted"
        /\ selectedSector' = v
        /\ UNCHANGED <<phase, portfolioData, liveData, intervals, effects,
                       requests, pending, last, lastOk, errorLog,
                       clock>>

\* lines 88-100: the user picks an option of the select
SelectSector ==
    \E v \in {AllSectors} \cup SectorSet(portfolioData) :
        /\ phase = "mounted"
        /\ selectedSector' = v
        /\ UNCHANGED <<phase, portfolioData, liveData, intervals, effects,
                       requests, pending, last, lastOk, errorLog,
                       clock>>

Next ==
    \/ Mount
    \/ HoldingsChange
    \/ Unmount
    \/ Advance
    \/ Tick
    \/ Reject
    \/ Respond
    \/ SelectSector

Spec == Init /\ [][Next]_vars

(***************************************************************************)
(* Derivation specification: the holdings are drawn from every portfolio   *)
(* of the input sets; the component mounts, receives responses, the user   *)
(* filters and the parent replaces the holdings.                           *)
(***************************************************************************)
DeriveInit ==
    /\ phase = "init"
    /\ portfolioData \in Portfolios
    /\ liveData = EmptyData
    /\ selectedSector = AllSectors
    /\ intervals = {}
    /\ effects = <<>>
    /\ requests = <<>>
    /\ pending = {}
    /\ last = NoResolution
    /\ lastOk = NoResult
    /\ errorLog = 0
    /\ clock = 0

DeriveNext ==
    \/ Mount
    \/ HoldingsChange
    \/ Respond
    \/ SelectSector

DeriveSpec == DeriveInit /\ [][DeriveNext]_vars

(***************************************************************************)
(* Vocabulary of the properties                                            *)
(***************************************************************************)
Last(s) == s[Len(s)]

\* the cleanup of effect e has run
Cancelled(e) == e < Len(effects) \/ (e = Len(effects) /\ phase = "unmounted")

\* this step resolves a request, with a failure, with a success
Resolves == pending' # pending /\ pending' \subseteq pending
Fails == Resolves /\ last' \in {"rejected", "threw"}
Succeeds == Resolves /\ last' = "ok"

\* the request this step resolves
Resolved == CHOOSE r \in pending : r \notin pending'

\* requests issued by the interval timer of effect e, and by the effect itself
TimerRequests(e) ==
    {r \in 1..Len(requests) : requests[r].effect = e /\ requests[r].byTimer}

ImmediateRequests(e) ==
    {r \in 1..Len(requests) : requests[r].effect = e /\ ~requests[r].byTimer}

Mapped(result) == MapResponse(result.data).mappedData

RECURSIVE SumInvestments(_)
SumInvestments(S) ==
    IF S = {} THEN 0
    ELSE LET h == CHOOSE x \in S : TRUE
         IN h.purchasePrice * h.quantity + SumInvestments(S \ {h})

Matching(pd, f) == {h \in Range(pd) : h.sector = f}

\* the place of a symbol in the input holdings
PositionOf(symbol) ==
    CHOOSE k \in 1..Len(portfolioData) : portfolioData[k].symbol = symbol

\* the sum of the investments and of the percentages over the rows
RECURSIVE SumRowInvestments(_)
SumRowInvestments(list) ==
    IF list = <<>> THEN 0
    ELSE Head(list).investment + SumRowInvestments(Tail(list))

RECURSIVE SumRowPercents(_)
SumRowPercents(list) ==
    IF list = <<>> THEN 0
    ELSE Head(list).portfolioPercent.value + SumRowPercents(Tail(list))

Abs(n) == IF n < 0 THEN 0 - n ELSE n

\* the active filter is one of the options of the select
FilterOffered == selectedSector \in {AllSectors} \cup SectorSet(portfolioData)

\* the labels of the pattern 'MMM dd'
DateLabels == {MonthNames[m] \o " " \o TwoDigits(d) : m \in 1..12, d \in 1..31}

\* entry is what the claim calls the normalization of the raw quote
Normalized(quote, entry) ==
    /\ entry.cmp = IF quote.cmp = Null THEN 0 ELSE quote.cmp[1]
    /\ entry.peRatio = quote.peRatio
    /\ IF quote.earningsTimestamp = Null
       THEN entry.latestEarnings = Null
       ELSE entry.latestEarnings \in {Some(label) : label \in DateLabels}

(***************************************************************************)
(* C1: a symbol present in the LiveCache stays present across every step:  *)
(* a successful result that omits the symbol leaves its entry in place.    *)
(***************************************************************************)
C1_KeysNeverRemoved ==
    [][\A s \in DOMAIN liveData :
          /\ s \in DOMAIN liveData'
          /\ (Succeeds /\ s \notin DOMAIN Mapped(lastOk')) => liveData'[s] = liveData[s]]_vars

(***************************************************************************)
(* C2: a fetch that resolves successfully after the cleanup of its effect  *)
(* has run is discarded: the LiveCache is unchanged by the resolution.     *)
(***************************************************************************)
C2_CancelledResultDiscarded ==
    [][(Succeeds /\ Cancelled(requests[Resolved].effect)) => liveData' = liveData]_vars

(***************************************************************************)
(* C3: a failed poll (rejected request, or a throw while the payload is    *)
(* processed) leaves the LiveCache and the derived rows as they were, is   *)
(* logged once and changes nothing else of the component.                  *)
(***************************************************************************)
C3_FailedPollLeavesCache ==
    [][Fails => /\ liveData' = liveData
                /\ rows' = rows
                /\ errorLog' = errorLog + 1
                /\ phase' = phase]_vars

C3_Witness ==
    /\ last = "threw"
    /\ lastOk.data = <<qA2>>
    /\ phase = "mounted"
    /\ "AAA" \in DOMAIN liveData
    /\ liveData["AAA"].cmp = 130

(***************************************************************************)
(* C4: once the cleanup of an effect has run, its timer never fires again  *)
(* and issues no further request.                                          *)
(***************************************************************************)
C4_NoTickAfterCancel ==
    [][\A e \in 1..Len(effects) :
          Cancelled(e) => /\ effects'[e].fired = effects[e].fired
                          /\ TimerRequests(e)' = TimerRequests(e)
                          /\ e \notin intervals']_vars

C4_Witness ==
    /\ Len(effects) >= 1
    /\ Cancelled(1)
    /\ effects[1].fired >= 1
    /\ clock >= effects[1].due
    /\ Len(requests) < MaxRequests

(***************************************************************************)
(* C5: a failed poll leaves the timer of the mounted component active and  *)
(* its schedule untouched, and a result that succeeds after failures is    *)
(* applied to the LiveCache as it is when no failure has occurred.         *)
(***************************************************************************)
C5_FailureNotFatal ==
    /\ [](phase = "mounted" => Len(effects) \in intervals)
    /\ [][Fails => intervals' = intervals /\ effects' = effects]_vars
    /\ [][(Succeeds /\ phase = "mounted") => liveData' = Mapped(lastOk')]_vars

C5_Witness ==
    /\ phase = "mounted"
    /\ errorLog = 2
    /\ last = "ok"
    /\ Len(requests) - Cardinality(pending) = 3
    /\ requests[lastOk.req].byTimer
    /\ liveData = Mapped(lastOk)
    /\ liveData # EmptyData

(***************************************************************************)
(* C6: the step that starts an effect issues its one immediate request,    *)
(* every firing of its timer issues one more, the k-th firing comes no     *)
(* earlier than k intervals after the start, and a due timer fires whether *)
(* or not earlier requests are pending.                                    *)
(***************************************************************************)
C6_ImmediateThenEveryInterval ==
    /\ [](\A e \in 1..Len(effects) :
            /\ Cardinality(ImmediateRequests(e)) = 1
            /\ \A r \in ImmediateRequests(e) : \A t \in TimerRequests(e) : r < t
            /\ Cardinality(TimerRequests(e)) = effects[e].fired
            /\ clock >= effects[e].startedAt + IntervalMs * effects[e].fired)
    /\ [](\A e \in intervals :
            (clock >= effects[e].due /\ Len(requests) < MaxRequests) => ENABLED Tick)
    /\ [][Len(effects') > Len(effects)
            => /\ Len(requests') = Len(requests) + 1
               /\ Last(requests') = [effect |-> Len(effects'), byTimer |-> FALSE]
               /\ Len(requests') \in pending'
               /\ effects'[Len(effects')].startedAt = clock]_vars

C6_Witness ==
    /\ Len(effects) = 1
    /\ effects[1].fired = 2
    /\ pending = {1, 2, 3}
    /\ clock = 2 * IntervalMs

(***************************************************************************)
(* C7: on a mounted component the entry of every symbol of the successful  *)
(* response that resolved last is the one of that response, whatever       *)
(* earlier resolutions put there and whichever request was issued first.   *)
(***************************************************************************)
C7_ResolutionOrderWins ==
    (phase = "mounted" /\ lastOk # NoResult) =>
        \A s \in DOMAIN Mapped(lastOk) :
            s \in DOMAIN liveData /\ liveData[s] = Mapped(lastOk)[s]

C7_Witness ==
    /\ phase = "mounted"
    /\ last = "ok"
    /\ errorLog = 0
    /\ \E r \in 1..Len(requests) :
          /\ r \notin pending
          /\ lastOk.req < r
          /\ requests[r].byTimer
          /\ requests[r].effect = requests[lastOk.req].effect
    /\ lastOk.data = <<qA1, qB1>>
    /\ liveData["AAA"].cmp = 120

(***************************************************************************)
(* C8: the LiveCache changes only in a step that applies a successful      *)
(* response; filter changes, ticks, failed polls, holdings changes and     *)
(* the passing of time leave it unchanged.                                 *)
(***************************************************************************)
C8_CacheFrame ==
    [][liveData' # liveData => Succeeds]_vars

C8_Witness ==
    /\ liveData # EmptyData
    /\ selectedSector # AllSectors
    /\ Len(effects) = 2
    /\ errorLog > 0
    /\ \E r \in pending : requests[r].byTimer

(***************************************************************************)
(* C9: with a filter other than "All Sectors" the rows are exactly the     *)
(* holdings whose sector equals the filter, and totalInvestment is the sum *)
(* of purchasePrice * quantity over exactly those holdings.                *)
(***************************************************************************)
C9_FilteredRowsAndTotal ==
    (phase = "mounted" /\ selectedSector # AllSectors) =>
        LET M == Matching(portfolioData, selectedSector)
        IN /\ Len(rows) = Cardinality(M)
           /\ {rows[i].symbol : i \in 1..Len(rows)} = {h.symbol : h \in M}
           /\ \A i \in 1..Len(rows) :
                 /\ rows[i].sector = selectedSector
                 /\ \E h \in M : /\ h.symbol = rows[i].symbol
                                 /\ rows[i].investment = h.purchasePrice * h.quantity
           /\ totalInvestment = SumInvestments(M)

C9_Witness ==
    /\ phase = "mounted"
    /\ selectedSector = "Tech"
    /\ Len(portfolioData) = 2
    /\ Len(rows) = 1
    /\ totalInvestment = 1000
    /\ TotalOf(portfolioData) = 2000

(***************************************************************************)
(* C10: when totalInvestment is 0 the portfolioPercent of every row is the *)
(* finite fallback 0%.                                                     *)
(***************************************************************************)
C10_ZeroTotalPercentIsZero ==
    (phase = "mounted" /\ totalInvestment = 0) =>
        \A i \in 1..Len(rows) :
            rows[i].portfolioPercent = [kind |-> "finite", value |-> 0]

(***************************************************************************)
(* C11: a row whose symbol has no entry in the LiveCache shows cmp 0,      *)
(* presentValue 0, a gainLoss of minus its investment, and "-" for peRatio *)
(* and latestEarnings; so it is before the first successful fetch and      *)
(* after any number of failed polls.                                       *)
(***************************************************************************)
C11_RowWithoutLiveData ==
    phase = "mounted" =>
        \A i \in 1..Len(rows) :
            rows[i].symbol \notin DOMAIN liveData =>
                /\ rows[i].cmp = 0
                /\ rows[i].presentValue = 0
                /\ rows[i].gainLoss =
                      0 - filteredPortfolioData[i].purchasePrice
                          * filteredPortfolioData[i].quantity
                /\ rows[i].peRatio = "-"
                /\ rows[i].latestEarnings = "-"

C11_Witness ==
    /\ phase = "mounted"
    /\ errorLog = 2
    /\ lastOk = NoResult
    /\ liveData = EmptyData
    /\ Len(rows) = 2
    /\ rows[2].gainLoss = 0 - 1000
    /\ rows[2].peRatio = "-"

(***************************************************************************)
(* C12: with the filter "All Sectors" there is one row per holding, and    *)
(* under every filter the rows come in the order of the input holdings:    *)
(* the rows are the matching holdings, never re-sorted.                    *)
(***************************************************************************)
C12_RowsInInputOrder ==
    phase = "mounted" =>
        /\ selectedSector = AllSectors =>
              /\ Len(rows) = Len(portfolioData)
              /\ \A i \in 1..Len(rows) : rows[i].symbol = portfolioData[i].symbol
        /\ \A i \in 1..Len(rows) :
              \E k \in 1..Len(portfolioData) : portfolioData[k].symbol = rows[i].symbol
        /\ \A i, j \in 1..Len(rows) :
              i < j => PositionOf(rows[i].symbol) < PositionOf(rows[j].symbol)

C12_Witness ==
    /\ phase = "mounted"
    /\ selectedSector = "Tech"
    /\ Len(portfolioData) = 2
    /\ Len(rows) = 2
    /\ rows[1].symbol = "CCC"
    /\ rows[2].symbol = "AAA"
    /\ rows[1].investment < rows[2].investment

(***************************************************************************)
(* C13: under any filter with totalInvestment > 0 the investments of the   *)
(* rows sum exactly to totalInvestment, every percentage is finite, and    *)
(* the percentages of the rows sum to 100 up to the rounding of toFixed(2),*)
(* half a hundredth of a percent per row.                                  *)
(***************************************************************************)
C13_PercentsSumToHundred ==
    (phase = "mounted" /\ totalInvestment > 0) =>
        /\ SumRowInvestments(rows) = totalInvestment
        /\ \A i \in 1..Len(rows) : rows[i].portfolioPercent.kind = "finite"
        /\ 2 * Abs(SumRowPercents(rows) - 10000) <= Len(rows)

C13_Witness ==
    /\ phase = "mounted"
    /\ selectedSector = "Energy"
    /\ Len(rows) = 2
    /\ totalInvestment = 3000
    /\ rows[1].portfolioPercent = [kind |-> "finite", value |-> 3333]
    /\ rows[2].portfolioPercent = [kind |-> "finite", value |-> 6667]

(***************************************************************************)
(* C14: the list of distinct sectors is strictly ascending in the order of *)
(* the strings' code units, so it is sorted and free of duplicates, and    *)
(* its elements are exactly the sector values that occur in the holdings.  *)
(***************************************************************************)
C14_SectorsSortedDistinct ==
    /\ \A i, j \in 1..Len(sectors) : i < j => StringLess(sectors[i], sectors[j])
    /\ Range(sectors) = {portfolioData[k].sector : k \in 1..Len(portfolioData)}

C14_Witness ==
    /\ phase = "mounted"
    /\ Len(portfolioData) = 2
    /\ portfolioData[1].sector = "Tech"
    /\ portfolioData[2].sector = "Auto"
    /\ sectors = <<"Auto", "Tech">>

(***************************************************************************)
(* C15: applying a successful response is idempotent: from any reachable   *)
(* cache, applying the same response twice gives the cache that applying   *)
(* it once gives; and a step that applies the response the cache already   *)
(* is the image of leaves the cache as it is.                              *)
(***************************************************************************)
C15_ApplyIdempotent ==
    /\ [](\A data \in Responses :
             ~MapResponse(data).threw =>
                 LET once == SetLiveData(liveData, MapResponse(data).mappedData)
                     twice == SetLiveData(once, MapResponse(data).mappedData)
                 IN twice = once)
    /\ [][(/\ Succeeds
           /\ phase = "mounted"
           /\ lastOk # NoResult
           /\ liveData = Mapped(lastOk)
           /\ lastOk'.data = lastOk.data) => liveData' = liveData]_vars

C15_Witness ==
    /\ phase = "mounted"
    /\ portfolioData = <<hA>>
    /\ Len(effects) = 1
    /\ errorLog = 0
    /\ Len(requests) = 3
    /\ pending = {}
    /\ lastOk.data = <<qA2>>
    /\ liveData = Mapped(lastOk)

(***************************************************************************)
(* C16: every entry of the cache of a mounted component is the             *)
(* normalization of the quote of the last successful response: cmp is the  *)
(* raw cmp or 0 when that is null, peRatio is passed through with null     *)
(* kept, latestEarnings is a date label when earningsTimestamp is a number *)
(* and null otherwise; and in every state every entry has a numeric cmp.   *)
(***************************************************************************)
C16_EntriesNormalized ==
    /\ \A s \in DOMAIN liveData : liveData[s].cmp \in Nat
    /\ (phase = "mounted" /\ lastOk # NoResult) =>
          /\ DOMAIN liveData = {lastOk.data[i].symbol : i \in 1..Len(lastOk.data)}
          /\ \A i \in 1..Len(lastOk.data) :
                Normalized(lastOk.data[i], liveData[lastOk.data[i].symbol])

C16_Witness ==
    /\ phase = "mounted"
    /\ lastOk.data = <<qA1, qB1>>
    /\ liveData["BBB"].cmp = 0
    /\ liveData["BBB"].peRatio = Some(8)
    /\ liveData["BBB"].latestEarnings = Some("Jan 05")
    /\ liveData["AAA"].cmp = 120
    /\ liveData["AAA"].latestEarnings = Some("Nov 14")

(***************************************************************************)
(* C17: a row whose symbol has an entry in the LiveCache shows the cmp of  *)
(* the entry now in the cache, presentValue = cmp * quantity and           *)
(* gainLoss = presentValue - purchasePrice * quantity, and the "-" only in *)
(* place of a null peRatio or latestEarnings; the rows are those of the    *)
(* current cache, filter and holdings in every state.                      *)
(***************************************************************************)
C17_RowWithLiveData ==
    phase = "mounted" =>
        \A i \in 1..Len(rows) :
            LET stock == filteredPortfolioData[i]
            IN rows[i].symbol \in DOMAIN liveData =>
                /\ rows[i].symbol = stock.symbol
                /\ rows[i].cmp = liveData[stock.symbol].cmp
                /\ rows[i].presentValue = liveData[stock.symbol].cmp * stock.quantity
                /\ rows[i].gainLoss =
                      rows[i].presentValue - stock.purchasePrice * stock.quantity
                /\ rows[i].peRatio = "-" <=> liveData[stock.symbol].peRatio = Null
                /\ rows[i].latestEarnings = "-"
                      <=> liveData[stock.symbol].latestEarnings = Null

C17_Witness ==
    /\ phase = "mounted"
    /\ Len(rows) >= 1
    /\ rows[1].symbol = "AAA"
    /\ filteredPortfolioData[1].purchasePrice = 100
    /\ filteredPortfolioData[1].quantity = 10
    /\ "AAA" \in DOMAIN liveData
    /\ liveData["AAA"].cmp = 120
    /\ rows[1].presentValue = 1200
    /\ rows[1].gainLoss = 200
    /\ rows[1].peRatio = "15"
    /\ rows[1].latestEarnings = "Nov 14"

(***************************************************************************)
(* C18: in every state the LiveCache is the initial empty mapping or the   *)
(* complete normalized image of one single successfully processed          *)
(* response; it never holds part of a response or entries of two.          *)
(***************************************************************************)
C18_CacheIsOneResponse ==
    \/ liveData = EmptyData
    \/ \E data \in Responses :
          /\ ~MapResponse(data).threw
          /\ liveData = MapResponse(data).mappedData

C18_Witness ==
    /\ phase = "mounted"
    /\ Len(requests) = 3
    /\ pending = {}
    /\ errorLog = 1
    /\ last = "ok"
    /\ lastOk.data = <<qA2>>
    /\ lastOk.req = 1
    /\ portfolioData = <<hA, hB>>
    /\ DOMAIN liveData = {"AAA"}
    /\ liveData["AAA"].cmp = 130

(***************************************************************************)
(* C19: at most one interval timer is active at any time, and it is the    *)
(* one of the latest run of the effect, started for the current holdings;  *)
(* no timer remains after unmount; a run of the effect leaves its own      *)
(* timer as the only one; every tick that fires issues one request, for    *)
(* the symbols of the current holdings.                                    *)
(***************************************************************************)
C19_OneTimerCurrentSymbols ==
    /\ [](/\ Cardinality(intervals) <= 1
          /\ phase = "unmounted" => intervals = {}
          /\ \A e \in intervals :
                /\ e = Len(effects)
                /\ effects[e].symbols = SymbolsOf(portfolioData))
    /\ [][Len(effects') > Len(effects) => intervals' = {Len(effects')}]_vars
    /\ [][\A e \in 1..Len(effects) :
            effects'[e].fired > effects[e].fired =>
                /\ Len(requests') = Len(requests) + 1
                /\ Last(requests') = NewRequest(e, TRUE)
                /\ effects[e].symbols = SymbolsOf(portfolioData)]_vars

C19_Witness ==
    /\ phase = "mounted"
    /\ Len(effects) = 2
    /\ effects[1].symbols # effects[2].symbols
    /\ effects[1].fired = 0
    /\ effects[2].fired = 1
    /\ intervals = {2}
    /\ Last(requests) = NewRequest(2, TRUE)

(***************************************************************************)
(* C20: as long as the holdings have not changed since mount, the active   *)
(* filter is "All Sectors" or one of the distinct sectors of the holdings, *)
(* and the filtered holdings are non-empty when the holdings are; a step   *)
(* that keeps the holdings keeps the filter among the options; a step that *)
(* resolves a poll, or in which a timer fires, leaves the filter as it is. *)
(***************************************************************************)
C20_FilterAmongOptions ==
    /\ [](Len(effects) <= 1 =>
             /\ FilterOffered
             /\ Len(portfolioData) > 0 => Len(filteredPortfolioData) > 0)
    /\ [][(portfolioData' = portfolioData /\ FilterOffered) =>
             selectedSector' \in {AllSectors} \cup SectorSet(portfolioData)]_vars
    /\ [][(Resolves \/ Len(requests') > Len(requests)) =>
             selectedSector' = selectedSector]_vars

C20_Witness ==
    /\ phase = "mounted"
    /\ Len(effects) = 1
    /\ portfolioData = <<hA, hB>>
    /\ selectedSector = "Energy"
    /\ effects[1].fired = 1
    /\ errorLog = 1
    /\ last = "ok"
    /\ Len(rows) = 1
    /\ rows[1].symbol = "BBB"
====
